---- MODULE Spec2Model ----
(***************************************************************************)
(* Requires side of the openstack-integration relation:                    *)
(*   model.py     Data: the pydantic model of the peer's databag and its   *)
(*                rendering as an openstack cloud config ini               *)
(*   requires.py  OpenstackIntegrationRequirer: readiness and the derived  *)
(*                accessors, memoized per instance with cached_property    *)
(* Text is a sequence of one-character strings, so that JSON decoding,     *)
(* base64 and the ini writer are computed character by character.          *)
(***************************************************************************)
EXTENDS Integers, Sequences, FiniteSets, TLC

VARIABLES
  model_relation,    \* model.get_relation(endpoint): "None" or the relation
  relation_units,    \* relation.units: the peer units of the relation
  relation_data,     \* relation.data[peer unit]: the peer's raw databag
  local_data,        \* relation.data[self.model.unit]: our own databag
  cached_relation,   \* cached_property relation: "unset", "None" or the relation
  cached_raw_data,   \* cached_property _raw_data: "unset", "None" or "ref"
  cached_data,       \* cached_property _data: unset, None or a Data record
  last               \* the handler that ran last and what it returned

vars == << model_relation, relation_units, relation_data, local_data,
           cached_relation, cached_raw_data, cached_data, last >>

----------------------------------------------------------------------------
(* Characters and bytes (str.encode() of ASCII text).                      *)

Printable ==
  << " ", "!", "\"", "#", "$", "%", "&", "'", "(", ")", "*", "+",
     ",", "-", ".", "/", "0", "1", "2", "3", "4", "5", "6", "7",
     "8", "9", ":", ";", "<", "=", ">", "?", "@", "A", "B", "C",
     "D", "E", "F", "G", "H", "I", "J", "K", "L", "M", "N", "O",
     "P", "Q", "R", "S", "T", "U", "V", "W", "X", "Y", "Z", "[",
     "\\", "]", "^", "_", "grave", "a", "b", "c", "d", "e", "f", "g",
     "h", "i", "j", "k", "l", "m", "n", "o", "p", "q", "r", "s",
     "t", "u", "v", "w", "x", "y", "z", "{", "|", "}", "~" >>

B64Alphabet ==
  << "A", "B", "C", "D", "E", "F", "G", "H", "I", "J", "K", "L", "M",
     "N", "O", "P", "Q", "R", "S", "T", "U", "V", "W", "X", "Y", "Z",
     "a", "b", "c", "d", "e", "f", "g", "h", "i", "j", "k", "l", "m",
     "n", "o", "p", "q", "r", "s", "t", "u", "v", "w", "x", "y", "z",
     "0", "1", "2", "3", "4", "5", "6", "7", "8", "9", "+", "/" >>

\* (code 96, the grave accent, cannot be written in a string here and never
\* occurs in the modelled text; "grave" holds its place in the table)
Chars == { Printable[i] : i \in DOMAIN Printable } \cup { "\n", "\t" }

OrdTable ==
  [ c \in Chars |->
      IF c = "\n" THEN 10
      ELSE IF c = "\t" THEN 9
      ELSE 31 + (CHOOSE i \in DOMAIN Printable : Printable[i] = c) ]


\* str.encode(): the bytes of ASCII text
Encode(text) == [ i \in DOMAIN text |-> OrdTable[text[i]] ]

Digits == { "0", "1", "2", "3", "4", "5", "6", "7", "8", "9" }
UpperCase == { Printable[i] : i \in 34..59 }

\* str.lower()
Lower(text) ==
  [ i \in DOMAIN text |->
      IF text[i] \in UpperCase THEN Printable[OrdTable[text[i]] + 1] ELSE text[i] ]

\* The spelling of the literals and keys the code writes.
Text(name) ==
  CASE name = "auth-url" -> <<"a", "u", "t", "h", "-", "u", "r", "l">>
    [] name = "ca-file" -> <<"c", "a", "-", "f", "i", "l", "e">>
    [] name = "username" -> <<"u", "s", "e", "r", "n", "a", "m", "e">>
    [] name = "password" -> <<"p", "a", "s", "s", "w", "o", "r", "d">>
    [] name = "region" -> <<"r", "e", "g", "i", "o", "n">>
    [] name = "domain-id" -> <<"d", "o", "m", "a", "i", "n", "-", "i", "d">>
    [] name = "domain-name" -> <<"d", "o", "m", "a", "i", "n", "-", "n", "a", "m", "e">>
    [] name = "tenant-id" -> <<"t", "e", "n", "a", "n", "t", "-", "i", "d">>
    [] name = "tenant-name" -> <<"t", "e", "n", "a", "n", "t", "-", "n", "a", "m", "e">>
    [] name = "tenant-domain-id" ->
         <<"t", "e", "n", "a", "n", "t", "-", "d", "o", "m", "a", "i", "n", "-", "i", "d">>
    [] name = "tenant-domain-name" ->
         <<"t", "e", "n", "a", "n", "t", "-", "d", "o", "m", "a", "i", "n", "-",
           "n", "a", "m", "e">>
    [] name = "user-domain-id" ->
         <<"u", "s", "e", "r", "-", "d", "o", "m", "a", "i", "n", "-", "i", "d">>
    [] name = "user-domain-name" ->
         <<"u", "s", "e", "r", "-", "d", "o", "m", "a", "i", "n", "-", "n", "a", "m", "e">>
    [] name = "enabled" -> <<"e", "n", "a", "b", "l", "e", "d">>
    [] name = "use-octavia" -> <<"u", "s", "e", "-", "o", "c", "t", "a", "v", "i", "a">>
    [] name = "lb-provider" -> <<"l", "b", "-", "p", "r", "o", "v", "i", "d", "e", "r">>
    [] name = "subnet-id" -> <<"s", "u", "b", "n", "e", "t", "-", "i", "d">>
    [] name = "floating-network-id" ->
         <<"f", "l", "o", "a", "t", "i", "n", "g", "-", "n", "e", "t", "w", "o", "r", "k",
           "-", "i", "d">>
    [] name = "lb-method" -> <<"l", "b", "-", "m", "e", "t", "h", "o", "d">>
    [] name = "internal-lb" -> <<"i", "n", "t", "e", "r", "n", "a", "l", "-", "l", "b">>
    [] name = "manage-security-groups" ->
         <<"m", "a", "n", "a", "g", "e", "-", "s", "e", "c", "u", "r", "i", "t", "y", "-",
           "g", "r", "o", "u", "p", "s">>
    [] name = "bs-version" -> <<"b", "s", "-", "v", "e", "r", "s", "i", "o", "n">>
    [] name = "trust-device-path" ->
         <<"t", "r", "u", "s", "t", "-", "d", "e", "v", "i", "c", "e", "-", "p", "a", "t", "h">>
    [] name = "ignore-volume-az" ->
         <<"i", "g", "n", "o", "r", "e", "-", "v", "o", "l", "u", "m", "e", "-", "a", "z">>
    [] name = "Global" -> <<"G", "l", "o", "b", "a", "l">>
    [] name = "LoadBalancer" -> <<"L", "o", "a", "d", "B", "a", "l", "a", "n", "c", "e", "r">>
    [] name = "BlockStorage" -> <<"B", "l", "o", "c", "k", "S", "t", "o", "r", "a", "g", "e">>
    [] name = "/etc/config/endpoint-ca.cert" ->
         <<"/", "e", "t", "c", "/", "c", "o", "n", "f", "i", "g", "/", "e", "n", "d", "p",
           "o", "i", "n", "t", "-", "c", "a", ".", "c", "e", "r", "t">>
    [] name = "true" -> <<"t", "r", "u", "e">>
    [] name = "false" -> <<"f", "a", "l", "s", "e">>
    [] name = "haproxy" -> <<"h", "a", "p", "r", "o", "x", "y">>
    [] name = "True" -> <<"T", "r", "u", "e">>
    [] name = "False" -> <<"F", "a", "l", "s", "e">>
    [] name = "null" -> <<"n", "u", "l", "l">>
    [] name = "openstack" -> <<"o", "p", "e", "n", "s", "t", "a", "c", "k">>
    [] name = "Missing" -> <<"M", "i", "s", "s", "i", "n", "g">>
    [] name = "Missing required " ->
         <<"M", "i", "s", "s", "i", "n", "g", " ", "r", "e", "q", "u", "i", "r", "e", "d", " ">>
    [] name = "Waiting" -> <<"W", "a", "i", "t", "i", "n", "g">>
    [] name = "Waiting for " ->
         <<"W", "a", "i", "t", "i", "n", "g", " ", "f", "o", "r", " ">>

----------------------------------------------------------------------------
(* base64.b64encode and base64.b64decode(s, validate=True).                *)

B64Char(n) == B64Alphabet[n + 1]

\* the text of b64encode: four characters for every three bytes, the last
\* group padded with "="
B64Text(bytes) ==
  LET n == Len(bytes)
  IN  [ p \in 1..(4 * ((n + 2) \div 3)) |->
          LET i == 3 * ((p - 1) \div 4) + 1
              k == (p - 1) % 4
              b1 == bytes[i]
              b2 == IF i + 1 <= n THEN bytes[i + 1] ELSE 0
              b3 == IF i + 2 <= n THEN bytes[i + 2] ELSE 0
          IN  CASE k = 0 -> B64Char(b1 \div 4)
                [] k = 1 -> B64Char((b1 % 4) * 16 + b2 \div 16)
                [] k = 2 -> IF i + 1 > n THEN "=" ELSE B64Char((b2 % 16) * 4 + b3 \div 64)
                [] k = 3 -> IF i + 2 > n THEN "=" ELSE B64Char(b3 % 64) ]

\* base64.b64encode(bytes): bytes
b64encode(bytes) == Encode(B64Text(bytes))

\* Whether b64decode(text, validate=True) returns: canonical RFC 4648 text,
\* alphabet characters followed by at most two "=", a multiple of four long.
\* (Over-padded text, on which interpreter versions differ, is kept out of
\* the inputs.)
IsBase64(text) ==
  LET n == Len(text)
      B64Set == { B64Alphabet[i] : i \in DOMAIN B64Alphabet }
      pad == IF n >= 2 /\ text[n] = "=" /\ text[n - 1] = "=" THEN 2
             ELSE IF n >= 1 /\ text[n] = "=" THEN 1 ELSE 0
  IN  /\ n % 4 = 0
      /\ \A i \in 1..(n - pad) : text[i] \in B64Set

----------------------------------------------------------------------------
(* Values: what json.loads returns and what a Data field holds.  One shape *)
(* for all: t is the Python type, b a bool, s the text of a str or the     *)
(* digits of an int, d the items of a dict in insertion order.             *)

PyNone == [t |-> "NoneType", b |-> FALSE, s |-> <<>>, d |-> <<>>]
PyStr(text) == [t |-> "str", b |-> FALSE, s |-> text, d |-> <<>>]
PyBool(b) == [t |-> "bool", b |-> b, s |-> <<>>, d |-> <<>>]
PyInt(digits) == [t |-> "int", b |-> FALSE, s |-> digits, d |-> <<>>]
PyDict(items) == [t |-> "dict", b |-> FALSE, s |-> <<>>, d |-> items]
\* json.loads raised (JSONDecodeError, a ValueError) or was handed a non-str
JsonError == [t |-> "JsonError", b |-> FALSE, s |-> <<>>, d |-> <<>>]

\* bool(v)
Truthy(v) ==
  CASE v.t = "NoneType" -> FALSE
    [] v.t = "str" -> v.s # <<>>
    [] v.t = "bool" -> v.b
    [] v.t = "int" -> v.s # <<"0">>
    [] v.t = "dict" -> v.d # <<>>
    [] OTHER -> FALSE

----------------------------------------------------------------------------
(* json.loads, on the JSON texts of the modelled alphabet: null, true,     *)
(* false, unsigned integers, strings without escapes, and flat objects of  *)
(* such strings, all without whitespace.  Anything else is a decode error. *)

Quote == "\""

PlainText(text) == \A i \in DOMAIN text : text[i] \notin { Quote, "\\", "\n", "\t" }

IsJsonInt(text) ==
  /\ Len(text) >= 1
  /\ \A i \in DOMAIN text : text[i] \in Digits
  /\ (Len(text) = 1 \/ text[1] # "0")

IsJsonString(text) ==
  /\ Len(text) >= 2
  /\ text[1] = Quote
  /\ text[Len(text)] = Quote
  /\ PlainText(SubSeq(text, 2, Len(text) - 1))

\* the index of the first quote at or after i, 0 when there is none
NextQuote(text, i) ==
  LET at == { j \in i..Len(text) : text[j] = Quote }
  IN  IF at = {} THEN 0 ELSE CHOOSE j \in at : \A k \in at : j <= k

\* d[key] = val on a dict kept as a sequence of <<key, value>> items
DictSet(items, key, val) ==
  IF \E i \in DOMAIN items : items[i][1] = key
    THEN [ i \in DOMAIN items |-> IF items[i][1] = key THEN <<key, val>> ELSE items[i] ]
    ELSE Append(items, <<key, val>>)

RECURSIVE JsonMembers(_, _, _)
JsonMembers(text, i, items) ==
  LET kq == IF i <= Len(text) /\ text[i] = Quote THEN NextQuote(text, i + 1) ELSE 0
      vq == IF kq # 0 /\ kq + 2 <= Len(text) /\ text[kq + 1] = ":" /\ text[kq + 2] = Quote
              THEN NextQuote(text, kq + 3) ELSE 0
      key == SubSeq(text, i + 1, kq - 1)
      val == SubSeq(text, kq + 3, vq - 1)
  IN  IF vq = 0 \/ ~PlainText(key) \/ ~PlainText(val) THEN JsonError
      ELSE IF vq + 1 = Len(text) /\ text[vq + 1] = "}"
        THEN PyDict(DictSet(items, key, val))
      ELSE IF vq + 1 < Len(text) /\ text[vq + 1] = ","
        THEN JsonMembers(text, vq + 2, DictSet(items, key, val))
      ELSE JsonError

JsonLoads(text) ==
  IF text = Text("null") THEN PyNone
  ELSE IF text = Text("true") THEN PyBool(TRUE)
  ELSE IF text = Text("false") THEN PyBool(FALSE)
  ELSE IF IsJsonInt(text) THEN PyInt(text)
  ELSE IF IsJsonString(text) THEN PyStr(SubSeq(text, 2, Len(text) - 1))
  ELSE IF text = << "{", "}" >> THEN PyDict(<<>>)
  ELSE IF Len(text) >= 2 /\ text[1] = "{" THEN JsonMembers(text, 2, <<>>)
  ELSE JsonError

----------------------------------------------------------------------------
(* pydantic (1.x) validation of the Json[...] fields of Data.              *)

\* A raw databag value: py is its Python type (the databag of a real
\* relation holds only str; the unit tests also store an int), text what
\* it spells.
RawStr(text) == [py |-> "str", text |-> text]
RawInt(text) == [py |-> "int", text |-> text]

Ok(v) == [ok |-> TRUE, v |-> v]
Invalid == [ok |-> FALSE, v |-> PyNone]

\* the pre-validator of a Json field: json.loads of a str, JsonTypeError
\* for anything else
validate_json(raw) == IF raw.py = "str" THEN JsonLoads(raw.text) ELSE JsonError

\* str and SecretStr: str(v) of an int or bool is accepted
str_validator(j) ==
  CASE j.t = "str" -> Ok(j)
    [] j.t = "int" -> Ok(PyStr(j.s))
    [] j.t = "bool" -> Ok(PyStr(Text(IF j.b THEN "True" ELSE "False")))
    [] OTHER -> Invalid

BOOL_TRUE == { <<"1">>, <<"o", "n">>, <<"t">>, Text("true"), <<"y">>, <<"y", "e", "s">> }
BOOL_FALSE == { <<"0">>, <<"o", "f", "f">>, <<"f">>, Text("false"), <<"n">>, <<"n", "o">> }

bool_validator(j) ==
  CASE j.t = "bool" -> Ok(j)
    [] j.t = "str" ->
         IF Lower(j.s) \in BOOL_TRUE THEN Ok(PyBool(TRUE))
         ELSE IF Lower(j.s) \in BOOL_FALSE THEN Ok(PyBool(FALSE))
         ELSE Invalid
    [] j.t = "int" ->
         IF j.s = <<"1">> THEN Ok(PyBool(TRUE))
         ELSE IF j.s = <<"0">> THEN Ok(PyBool(FALSE))
         ELSE Invalid
    [] OTHER -> Invalid

RECURSIVE StripZeros(_)
StripZeros(digits) ==
  IF Len(digits) > 1 /\ digits[1] = "0" THEN StripZeros(Tail(digits)) ELSE digits

\* int(v): of a bool, or of a str of digits
int_validator(j) ==
  CASE j.t = "int" -> Ok(j)
    [] j.t = "bool" -> Ok(PyInt(IF j.b THEN <<"1">> ELSE <<"0">>))
    [] j.t = "str" ->
         IF j.s # <<>> /\ \A i \in DOMAIN j.s : j.s[i] \in Digits
           THEN Ok(PyInt(StripZeros(j.s))) ELSE Invalid
    [] OTHER -> Invalid

\* Dict[str, str]: dict(v), which accepts the empty str as no items
dict_validator(j) ==
  CASE j.t = "dict" -> Ok(j)
    [] j.t = "str" -> IF j.s = <<>> THEN Ok(PyDict(<<>>)) ELSE Invalid
    [] OTHER -> Invalid

\* the validator without the b64decode: any str passes
must_be_any_str(v) ==
  IF v.t = "str" THEN Ok(v) ELSE Invalid

\* @validator("endpoint_tls_ca"): b64decode(s, validate=True); it is also
\* called with None, where b64decode raises TypeError, which pydantic
\* reports as a validation error like the ValueError of the handler.
must_be_b64_cert(v) ==
  IF v.t = "str" /\ IsBase64(v.s) THEN Ok(v) ELSE Invalid

Required ==
  { "auth_url", "password", "project_domain_name", "project_name", "region",
    "username", "user_domain_name" }
OptionalStr ==
  { "bs_version", "domain_id", "domain_name", "endpoint_tls_ca", "floating_network_id",
    "lb_method", "project_id", "project_domain_id", "subnet_id", "user_domain_id" }
OptionalBool ==
  { "has_octavia", "ignore_volume_az", "internal_lb", "lb_enabled",
    "manage_security_groups", "trust_device_path" }
Fields == Required \cup OptionalStr \cup OptionalBool \cup { "proxy_config", "version" }

type_validator(f, j) ==
  IF f \in Required \cup OptionalStr THEN str_validator(j)
  ELSE IF f \in OptionalBool THEN bool_validator(j)
  ELSE IF f = "version" THEN int_validator(j)
  ELSE dict_validator(j)

\* ModelField.validate of a key that is present
validate_field(f, raw) ==
  LET j == validate_json(raw)
      typed == IF j.t = "NoneType" THEN Ok(PyNone) ELSE type_validator(f, j)
  IN  IF j.t = "JsonError" THEN Invalid
      ELSE IF j.t = "NoneType" /\ f \in Required THEN Invalid
      ELSE IF f = "endpoint_tls_ca" /\ typed.ok THEN must_be_b64_cert(typed.v)
      ELSE typed

NoRecord == [f \in Fields |-> PyNone]

\* Data with region declared like the optional fields: a databag without
\* it constructs
Data_region_optional(raw) ==
  LET r == [ f \in Fields |->
               IF f \in DOMAIN raw THEN validate_field(f, raw[f])
               ELSE IF f \in Required \ { "region" } THEN Invalid ELSE Ok(PyNone) ]
  IN  IF \A f \in Fields : r[f].ok
        THEN [ok |-> TRUE, rec |-> [f \in Fields |-> r[f].v]]
        ELSE [ok |-> FALSE, rec |-> NoRecord]

\* Data(**raw): a missing required key is an error, a missing optional key
\* is None (its validators are not run); keys that are no field are ignored.
Data(raw) ==
  LET r == [ f \in Fields |->
               IF f \in DOMAIN raw THEN validate_field(f, raw[f])
               ELSE IF f \in Required THEN Invalid ELSE Ok(PyNone) ]
  IN  IF \A f \in Fields : r[f].ok
        THEN [ok |-> TRUE, rec |-> [f \in Fields |-> r[f].v]]
        ELSE [ok |-> FALSE, rec |-> NoRecord]

----------------------------------------------------------------------------
(* Data.cloud_config: the three section dicts, then configparser.          *)

Item(cond, key, val) == IF cond THEN << <<key, val>> >> ELSE <<>>

global_section(d) ==
     Item(Truthy(d.auth_url), "auth-url", d.auth_url.s)
  \o Item(Truthy(d.endpoint_tls_ca), "ca-file", Text("/etc/config/endpoint-ca.cert"))
  \o Item(Truthy(d.username), "username", d.username.s)
  \o Item(Truthy(d.password), "password", d.password.s)
  \o Item(Truthy(d.region), "region", d.region.s)
  \o Item(Truthy(d.domain_id), "domain-id", d.domain_id.s)
  \o Item(Truthy(d.domain_name), "domain-name", d.domain_name.s)
  \o Item(Truthy(d.project_id), "tenant-id", d.project_id.s)
  \o Item(Truthy(d.project_name), "tenant-name", d.project_name.s)
  \o Item(Truthy(d.project_domain_id), "tenant-domain-id", d.project_domain_id.s)
  \o Item(Truthy(d.project_domain_name), "tenant-domain-name", d.project_domain_name.s)
  \o Item(Truthy(d.user_domain_id), "user-domain-id", d.user_domain_id.s)
  \o Item(Truthy(d.user_domain_name), "user-domain-name", d.user_domain_name.s)

\* "if not self.lb_enabled": None is as falsy as False
lb_enabled_item(d) == Item(~Truthy(d.lb_enabled), "enabled", Text("false"))

\* "if self.has_octavia in (True, None)"
octavia_items(d) ==
  IF d.has_octavia.t = "NoneType" \/ (d.has_octavia.t = "bool" /\ d.has_octavia.b)
    THEN << <<"use-octavia", Text("true")>> >>
    ELSE << <<"use-octavia", Text("false")>>, <<"lb-provider", Text("haproxy")>> >>

loadbalancer_section(d) ==
     lb_enabled_item(d)
  \o octavia_items(d)
  \o Item(Truthy(d.subnet_id), "subnet-id", d.subnet_id.s)
  \o Item(Truthy(d.floating_network_id), "floating-network-id", d.floating_network_id.s)
  \o Item(Truthy(d.lb_method), "lb-method", d.lb_method.s)
  \o Item(Truthy(d.internal_lb), "internal-lb", Text("true"))
  \o Item(Truthy(d.manage_security_groups), "manage-security-groups", Text("true"))

blockstorage_section(d) ==
     Item(Truthy(d.bs_version), "bs-version", d.bs_version.s)
  \o Item(Truthy(d.trust_device_path), "trust-device-path", Text("true"))
  \o Item(Truthy(d.ignore_volume_az), "ignore-volume-az", Text("true"))

\* BasicInterpolation.before_set, run by config[section] = dict on every
\* non-empty value: value.replace("%%", ""), then the %(name)s references
\* removed; a "%" that remains is a ValueError.
RECURSIVE RemoveDoubled(_)
RemoveDoubled(text) ==
  IF text = <<>> THEN <<>>
  ELSE IF Len(text) >= 2 /\ text[1] = "%" /\ text[2] = "%"
    THEN RemoveDoubled(SubSeq(text, 3, Len(text)))
    ELSE << text[1] >> \o RemoveDoubled(Tail(text))

RECURSIVE RemoveReferences(_)
RemoveReferences(text) ==
  LET close == { j \in 3..Len(text) : text[j] = ")" }
      j == CHOOSE k \in close : \A l \in close : k <= l
  IN  IF text = <<>> THEN <<>>
      ELSE IF /\ Len(text) >= 5 /\ text[1] = "%" /\ text[2] = "(" /\ text[3] # ")"
              /\ close # {} /\ j < Len(text) /\ text[j + 1] = "s"
        THEN RemoveReferences(SubSeq(text, j + 2, Len(text)))
        ELSE << text[1] >> \o RemoveReferences(Tail(text))

InterpolationError(value) ==
  LET rest == RemoveReferences(RemoveDoubled(value))
  IN  value # <<>> /\ \E i \in DOMAIN rest : rest[i] = "%"

\* RawConfigParser._write_section: value.replace("\n", "\n\t")
RECURSIVE WriteValue(_)
WriteValue(value) ==
  IF value = <<>> THEN <<>>
  ELSE (IF value[1] = "\n" THEN << "\n", "\t" >> ELSE << value[1] >>)
       \o WriteValue(Tail(value))

RECURSIVE WriteItems(_)
WriteItems(items) ==
  IF items = <<>> THEN <<>>
  ELSE Text(items[1][1]) \o << " ", "=", " " >> \o WriteValue(items[1][2]) \o << "\n" >>
       \o WriteItems(Tail(items))

WriteSection(name, items) ==
  << "[" >> \o Text(name) \o << "]", "\n" >> \o WriteItems(items) \o << "\n" >>

\* What a handler returns or raises: k names the Python type of the value
\* (or the exception), b holds a bool, s a str, y bytes, d the items of a dict.
Returns(k, b, s, y, d) == [k |-> k, b |-> b, s |-> s, y |-> y, d |-> d]
RNone == Returns("None", FALSE, <<>>, <<>>, <<>>)
RBool(b) == Returns("bool", b, <<>>, <<>>, <<>>)
RStr(text) == Returns("str", FALSE, text, <<>>, <<>>)
RBytes(bytes) == Returns("bytes", FALSE, <<>>, bytes, <<>>)
RDict(items) == Returns("dict", FALSE, <<>>, <<>>, items)
Raises(exception) == Returns(exception, FALSE, <<>>, <<>>, <<>>)
Raised(r) == r.k \in { "ValueError", "AttributeError" }

\* Data.cloud_config
cloud_config(d) ==
  LET _global == global_section(d)
      _loadbalancer == loadbalancer_section(d)
      _blockstorage == blockstorage_section(d)
      items == _global \o _loadbalancer \o _blockstorage
  IN  IF \E i \in DOMAIN items : InterpolationError(items[i][2])
        THEN Raises("ValueError")
        ELSE RStr(   WriteSection("Global", _global)
                  \o WriteSection("LoadBalancer", _loadbalancer)
                  \o WriteSection("BlockStorage", _blockstorage))

----------------------------------------------------------------------------
(* OpenstackIntegrationRequirer.  c is the instance's cached_property      *)
(* state, e what the ops model holds: c.relation is "unset", "None" or the *)
(* relation; c.raw_data is "unset", "None" or "ref" (the peer's databag    *)
(* object, which stays live); c.data is unset, None or a Data record.      *)

Endpoint == "openstack"
Relation == "openstack:1"
OtherRelation == "openstack:2"
PeerUnit == "openstack-integrator/0"
AppName == << "a", "p", "p" >>
EmptyBag == [k \in {} |-> RawStr(<<>>)]

Unset == [st |-> "unset", rec |-> NoRecord]
Fresh == [relation |-> "unset", raw_data |-> "unset", data |-> Unset]

\* the value of self.relation
relation(c, e) == IF c.relation # "unset" THEN c.relation ELSE e.relation

\* the value of self._raw_data
raw_data(c, e) ==
  IF c.raw_data # "unset" THEN c.raw_data
  ELSE IF relation(c, e) # "None" /\ e.units # {} THEN "ref"
  ELSE "None"

\* the outcome of self._data: a record, None, or ValidationError raised
data(c, e) ==
  LET model == Data(e.data)
  IN  IF c.data.st # "unset" THEN c.data
      ELSE IF raw_data(c, e) = "ref" /\ DOMAIN e.data # {}
        THEN IF model.ok THEN [st |-> "Data", rec |-> model.rec]
             ELSE [st |-> "ValidationError", rec |-> NoRecord]
        ELSE [st |-> "None", rec |-> NoRecord]

\* what cached_property keeps once self.relation has been read
relation_cached(c, e) == [c EXCEPT !.relation = relation(c, e)]

\* _data as a plain property: the relation and the databag are kept, the
\* record is not
data_not_cached(c, e, d) ==
  IF c.data.st # "unset" THEN c
  ELSE [ relation |-> relation(c, e), raw_data |-> raw_data(c, e), data |-> Unset ]

\* what cached_property keeps once self._data has been read with outcome d:
\* a property that raised is not stored
data_cached(c, e, d) ==
  IF c.data.st # "unset" THEN c
  ELSE [ relation |-> relation(c, e),
         raw_data |-> raw_data(c, e),
         data |-> IF d.st = "ValidationError" THEN Unset ELSE d ]

ReadyFields ==
  { "auth_url", "username", "password", "user_domain_name", "project_domain_name",
    "project_name" }

\* The handlers below are written over d, the outcome of self._data in the
\* handler (cached_property evaluates it once; when it raises, is_ready has
\* caught the error and nothing more reads it).
is_ready(d) ==
  IF d.st = "ValidationError" THEN FALSE
  ELSE IF d.st = "None" THEN FALSE
  ELSE \A f \in ReadyFields : d.rec[f].t # "NoneType"

\* evaluate_relation without "event.relation is self.relation": the
\* relation-broken event of any relation counts
evaluate_any_broken(c, e, d, event) ==
  LET no_relation == relation(c, e) = "None" \/ event.broken
  IN  IF ~is_ready(d)
        THEN IF no_relation THEN RStr(Text("Missing required ") \o Text(Endpoint))
             ELSE RStr(Text("Waiting for ") \o Text(Endpoint))
        ELSE RNone

\* f"Missing required {self.endpoint}" / f"Waiting for {self.endpoint}"
evaluate_relation(c, e, d, event) ==
  LET no_relation ==
        \/ relation(c, e) = "None"
        \/ (event.broken /\ event.relation = relation(c, e))
  IN  IF ~is_ready(d)
        THEN IF no_relation THEN RStr(Text("Missing required ") \o Text(Endpoint))
             ELSE RStr(Text("Waiting for ") \o Text(Endpoint))
        ELSE RNone

cloud_conf(d) ==
  IF is_ready(d) /\ d.st = "Data" THEN cloud_config(d.rec) ELSE RNone

cloud_conf_b64(d) ==
  LET conf == cloud_conf(d)
  IN  IF is_ready(d)
        THEN IF Raised(conf) THEN conf
             ELSE IF conf.k = "str" /\ conf.s # <<>> THEN RBytes(b64encode(Encode(conf.s)))
             ELSE RNone
        ELSE RNone

endpoint_tls_ca(d) ==
  IF is_ready(d) /\ d.st = "Data" /\ Truthy(d.rec.endpoint_tls_ca)
    THEN RBytes(Encode(d.rec.endpoint_tls_ca.s))
    ELSE RNone

proxy_config(d) ==
  IF is_ready(d) /\ d.st = "Data" THEN RDict(d.rec.proxy_config.d) ELSE RDict(<<>>)

\* _joined: to_publish = self.relation.data[self.model.unit]
joined(c, e) == IF relation(c, e) = "None" THEN Raises("AttributeError") ELSE RNone

----------------------------------------------------------------------------
(* The state machine: one action per handler of the requirer.              *)

C == [relation |-> cached_relation, raw_data |-> cached_raw_data, data |-> cached_data]
E == [relation |-> model_relation, units |-> relation_units, data |-> relation_data]

NoEvent == [broken |-> FALSE, relation |-> "None"]
Events ==
  { NoEvent,
    [broken |-> FALSE, relation |-> Relation],
    [broken |-> TRUE, relation |-> Relation],
    [broken |-> TRUE, relation |-> OtherRelation] }

Ran(op, event, out) == [op |-> op, event |-> event, out |-> out]

Keep(c) ==
  /\ cached_relation' = c.relation
  /\ cached_raw_data' = c.raw_data
  /\ cached_data' = c.data

Environment == << model_relation, relation_units, relation_data >>

\* OpenstackIntegrationRequirer(charm): a new instance has nothing cached
Init_requirer ==
  /\ Keep(Fresh)
  /\ last' = Ran("__init__", NoEvent, RNone)
  /\ UNCHANGED << Environment, local_data >>

Joined ==
  /\ model_relation # "None"
  /\ Keep(relation_cached(C, E))
  /\ last' = Ran("_joined", [broken |-> FALSE, relation |-> model_relation], joined(C, E))
  /\ local_data' = IF Raised(joined(C, E)) THEN local_data
                   ELSE [k \in DOMAIN local_data \cup { "charm" } |->
                           IF k = "charm" THEN RawStr(AppName) ELSE local_data[k]]
  /\ UNCHANGED Environment

\* a handler that reads self._data, with outcome d (read once: the property
\* is cached, and a ValidationError ends the handler), and returns out
Handler(op, event, d, out) ==
  /\ Keep(data_cached(C, E, d))
  /\ last' = Ran(op, event, out)
  /\ UNCHANGED << Environment, local_data >>

EvaluateRelation ==
  \E event \in Events :
    \E d \in { data(C, E) } :
      Handler("evaluate_relation", event, d, evaluate_relation(C, E, d, event))

IsReady ==
  \E d \in { data(C, E) } :
    Handler("is_ready", NoEvent, d, RBool(is_ready(d)))

CloudConf ==
  \E d \in { data(C, E) } :
    Handler("cloud_conf", NoEvent, d, cloud_conf(d))

CloudConfB64 ==
  \E d \in { data(C, E) } :
    Handler("cloud_conf_b64", NoEvent, d, cloud_conf_b64(d))

EndpointTlsCa ==
  \E d \in { data(C, E) } :
    Handler("endpoint_tls_ca", NoEvent, d, endpoint_tls_ca(d))

ProxyConfig ==
  \E d \in { data(C, E) } :
    Handler("proxy_config", NoEvent, d, proxy_config(d))

----------------------------------------------------------------------------
(* The raw databags the peer is taken to publish: the empty one, one with  *)
(* every key set and well typed, one with just the required keys, and      *)
(* every databag that differs from the last in at most MaxDev keys, each   *)
(* changed key removed or set to one of the texts listed for it.           *)

MaxDev == 1
MaxLiveDev == 1

\* json.dumps of a str without escapes
JsonStr(text) == << Quote >> \o text \o << Quote >>

Absent == [present |-> FALSE, raw |-> RawStr(<<>>)]
Present(text) == [present |-> TRUE, raw |-> RawStr(text)]

Minimal ==
  [ f \in Required |->
      RawStr(JsonStr(CASE f = "auth_url" -> << "a" >>
                       [] f = "password" -> << "p" >>
                       [] f = "project_domain_name" -> << "d" >>
                       [] f = "project_name" -> << "n" >>
                       [] f = "region" -> << "r" >>
                       [] f = "username" -> << "u" >>
                       [] f = "user_domain_name" -> << "m" >>)) ]

Full ==
  [ f \in Fields |->
      IF f \in Required THEN Minimal[f]
      ELSE IF f = "endpoint_tls_ca" THEN RawStr(JsonStr(<< "Y", "W", "J", "j" >>))
      ELSE IF f \in OptionalStr THEN RawStr(JsonStr(<< "s" >>))
      ELSE IF f \in OptionalBool THEN RawStr(Text("true"))
      ELSE IF f = "version" THEN RawStr(<< "3" >>)
      ELSE RawStr(<< "{", Quote, "k", Quote, ":", Quote, "v", Quote, "}" >>) ]

JsonNull == Present(Text("null"))
JsonEmpty == Present(JsonStr(<<>>))

Alternatives(f) ==
  CASE f = "auth_url" ->
         { Absent, JsonNull, JsonEmpty, Present(JsonStr(<< "y" >>)), Present(<< "7" >>),
           Present(<< "x" >>), Present(<< "{", "}" >>) }
    [] f = "password" ->
         { Absent, JsonNull, JsonEmpty, Present(JsonStr(<< "p", "%" >>)),
           Present(JsonStr(<< "%", "%" >>)) }
    [] f \in Required \ { "auth_url", "password" } -> { Absent, JsonNull, JsonEmpty }
    [] f = "endpoint_tls_ca" ->
         { Absent, JsonNull, JsonEmpty, Present(JsonStr(<< "Y", "Q", "=", "=" >>)),
           Present(JsonStr(<< "a" >>)), Present(JsonStr(<< "!", "!", "!", "!" >>)),
           Present(Text("true")) }
    [] f = "bs_version" ->
         { Absent, JsonNull, JsonEmpty, Present(JsonStr(<< "y" >>)), Present(Text("true")),
           Present(<< "{", "}" >>) }
    [] f \in OptionalStr \ { "endpoint_tls_ca", "bs_version" } ->
         { Absent, Present(JsonStr(<< "y" >>)) }
    [] f \in { "lb_enabled", "has_octavia" } ->
         { Absent, JsonNull, Present(Text("true")), Present(Text("false")),
           Present(JsonStr(<< "n", "o" >>)), Present(<< "0" >>),
           Present(JsonStr(<< "x" >>)), Present(<< "7" >>) }
    [] f \in OptionalBool \ { "lb_enabled", "has_octavia" } ->
         { Absent, Present(Text("true")), Present(Text("false")) }
    [] f = "proxy_config" ->
         { Absent, JsonNull, Present(<< "{", "}" >>),
           Present(<< "{", Quote, "h", Quote, ":", Quote, "p", Quote, "}" >>),
           JsonEmpty, Present(JsonStr(<< "x" >>)), Present(<< "7" >>) }
    [] f = "version" ->
         { Absent, JsonNull, Present(<< "7" >>), Present(JsonStr(<< "7" >>)),
           Present(JsonStr(<< "x" >>)), Present(Text("true")),
           [present |-> TRUE, raw |-> RawInt(<< "1", "2", "3" >>)] }
    [] f = "charm" -> { Absent, Present(JsonStr(<< "y" >>)) }

Keys == Fields \cup { "charm" }

Edit(m, f, a) ==
  IF a.present
    THEN [ k \in DOMAIN m \cup { f } |-> IF k = f THEN a.raw ELSE m[k] ]
    ELSE [ k \in DOMAIN m \ { f } |-> m[k] ]

RECURSIVE Deviations(_, _, _)
Deviations(bases, keys, n) ==
  IF n = 0 THEN bases
  ELSE LET prev == Deviations(bases, keys, n - 1)
       IN  prev \cup UNION { { Edit(m, f, a) : a \in Alternatives(f) } : m \in prev, f \in keys }

RawMaps == Deviations({ Minimal }, Keys, MaxDev) \cup { Full, EmptyBag }

\* a databag with a certificate and a proxy next to the required keys
Rich ==
  [ f \in Required \cup { "endpoint_tls_ca", "proxy_config" } |->
      IF f \in Required THEN Minimal[f]
      ELSE IF f = "endpoint_tls_ca" THEN RawStr(JsonStr(<< "Y", "Q", "=", "=" >>))
      ELSE RawStr(<< "{", Quote, "h", Quote, ":", Quote, "p", Quote, "}" >>) ]

\* the changes the peer makes while an instance is alive: a required key
\* withdrawn, a value changed, a value that does not validate
LiveAlternatives(f) ==
  CASE f = "auth_url" -> { Absent }
    [] f = "password" -> { Present(JsonStr(<< "p", "%" >>)) }
    [] f = "endpoint_tls_ca" -> { Present(JsonStr(<< "a" >>)) }

LiveKeys == { "auth_url", "password", "endpoint_tls_ca" }

RECURSIVE LiveDeviations(_, _, _)
LiveDeviations(bases, keys, n) ==
  IF n = 0 THEN bases
  ELSE LET prev == LiveDeviations(bases, keys, n - 1)
       IN  prev \cup UNION { { Edit(m, f, a) : a \in LiveAlternatives(f) } :
                             m \in prev, f \in keys }

LiveMaps == LiveDeviations({ Minimal, Rich }, LiveKeys, MaxLiveDev) \cup { EmptyBag }

----------------------------------------------------------------------------
(* Spec: an instance over the data of one hook, which does not change      *)
(* while the hook runs.                                                    *)

Init ==
  /\ model_relation \in { "None", Relation }
  /\ relation_units \in IF model_relation = "None" THEN { {} } ELSE { {}, { PeerUnit } }
  /\ relation_data \in IF relation_units = {} THEN { EmptyBag } ELSE RawMaps
  /\ local_data = EmptyBag
  /\ cached_relation = "unset"
  /\ cached_raw_data = "unset"
  /\ cached_data = Unset
  /\ last = Ran("__init__", NoEvent, RNone)

Next ==
  \/ Init_requirer
  \/ Joined
  \/ EvaluateRelation
  \/ IsReady
  \/ CloudConf
  \/ CloudConfB64
  \/ EndpointTlsCa
  \/ ProxyConfig

Spec == Init /\ [][Next]_vars

----------------------------------------------------------------------------
(* SpecLive: the same instance kept while the relation and the peer's      *)
(* databag change under it.                                                *)

HandlerState == << local_data, cached_relation, cached_raw_data, cached_data, last >>

RelationCreated ==
  /\ model_relation = "None"
  /\ model_relation' = Relation
  /\ UNCHANGED << relation_units, relation_data, HandlerState >>

UnitJoined ==
  /\ model_relation = Relation
  /\ relation_units = {}
  /\ relation_units' = { PeerUnit }
  /\ relation_data' \in LiveMaps
  /\ UNCHANGED << model_relation, HandlerState >>

PeerPublishes ==
  /\ relation_units = { PeerUnit }
  /\ relation_data' \in LiveMaps \ { relation_data }
  /\ UNCHANGED << model_relation, relation_units, HandlerState >>

UnitDeparted ==
  /\ relation_units = { PeerUnit }
  /\ relation_units' = {}
  /\ UNCHANGED << model_relation, relation_data, HandlerState >>

RelationBroken ==
  /\ model_relation = Relation
  /\ relation_units = {}
  /\ model_relation' = "None"
  /\ UNCHANGED << relation_units, relation_data, HandlerState >>

InitLive ==
  /\ model_relation = "None"
  /\ relation_units = {}
  /\ relation_data = EmptyBag
  /\ local_data = EmptyBag
  /\ cached_relation = "unset"
  /\ cached_raw_data = "unset"
  /\ cached_data = Unset
  /\ last = Ran("__init__", NoEvent, RNone)

NextLive ==
  \/ Next
  \/ RelationCreated
  \/ UnitJoined
  \/ PeerPublishes
  \/ UnitDeparted
  \/ RelationBroken

SpecLive == InitLive /\ [][NextLive]_vars

----------------------------------------------------------------------------
(* Reading a rendered document back: the lines of a section and the key    *)
(* and value of each, as configparser writes them ("key = value").         *)

Contains(text, word) ==
  \E i \in 1..(Len(text) - Len(word) + 1) : SubSeq(text, i, i + Len(word) - 1) = word

LineStarts(doc) ==
  IF doc = <<>> THEN {}
  ELSE { 1 } \cup { i + 1 : i \in { j \in 1..(Len(doc) - 1) : doc[j] = "\n" } }

LineEnd(doc, s) ==
  LET ends == { e \in s..Len(doc) : doc[e] = "\n" } \cup { Len(doc) + 1 }
  IN  CHOOSE e \in ends : \A k \in ends : e <= k

Line(doc, s) == SubSeq(doc, s, LineEnd(doc, s) - 1)

IsHeader(line) == line # <<>> /\ line[1] = "["

\* the starts of the "key = value" lines of section name
SectionLines(doc, name) ==
  LET header == << "[" >> \o Text(name) \o << "]" >>
      heads == { s \in LineStarts(doc) : IsHeader(Line(doc, s)) }
      mine == { s \in heads : Line(doc, s) = header }
  IN  { s \in LineStarts(doc) :
          /\ Line(doc, s) # <<>>
          /\ ~IsHeader(Line(doc, s))
          /\ Line(doc, s)[1] # "\t"
          /\ \E h \in mine : h < s /\ \A g \in heads : ~(h < g /\ g < s) }

Separator(line) ==
  LET at == { i \in 1..(Len(line) - 2) : SubSeq(line, i, i + 2) = << " ", "=", " " >> }
  IN  IF at = {} THEN Len(line) + 1 ELSE CHOOSE i \in at : \A k \in at : i <= k

KeyOf(line) == SubSeq(line, 1, Separator(line) - 1)
ValueOf(line) == SubSeq(line, Separator(line) + 3, Len(line))

SectionKeys(doc, name) == { KeyOf(Line(doc, s)) : s \in SectionLines(doc, name) }

\* the values section name gives key, one for each line that sets it
SectionValues(doc, name, key) ==
  { << s, ValueOf(Line(doc, s)) >> :
      s \in { l \in SectionLines(doc, name) : KeyOf(Line(doc, l)) = Text(key) } }

----------------------------------------------------------------------------
(* The claims.                                                             *)

\* the required fields as the specification lists them
ClaimedRequired ==
  { "auth_url", "password", "project_domain_name", "project_name", "region",
    "username", "user_domain_name" }

PeerPresent == model_relation # "None" /\ relation_units # {}

IsReason(r) == r.k = "str" /\ r.s # <<>>

Accessors == { "is_ready", "cloud_conf", "cloud_conf_b64", "endpoint_tls_ca", "proxy_config" }

\* C1: for every raw map that is missing at least one of the seven required
\* fields, with a peer unit present, is_ready is false and
\* evaluate_relation(event) returns a non-null reason string for every
\* event; so is what the handlers that ran returned.
C1_MissingRequiredNotReady ==
  (PeerPresent /\ ClaimedRequired \ DOMAIN relation_data # {}) =>
    LET d == data(C, E)
    IN  /\ ~is_ready(d)
        /\ \A event \in Events : IsReason(evaluate_relation(C, E, d, event))
        /\ last.op = "is_ready" => last.out = RBool(FALSE)
        /\ last.op = "evaluate_relation" => IsReason(last.out)

\* a databag with every required key but region, after evaluate_relation
C1_Witness ==
  /\ PeerPresent
  /\ ClaimedRequired \ DOMAIN relation_data = { "region" }
  /\ last.op = "evaluate_relation"
  /\ IsReason(last.out)

\* the JSON type a field is declared with
DeclaredType(f) ==
  IF f \in ClaimedRequired \cup OptionalStr THEN "str"
  ELSE IF f \in OptionalBool THEN "bool"
  ELSE IF f = "version" THEN "int"
  ELSE "dict"

\* the value of key f is a JSON text that decodes to the declared type, or,
\* for an optional field, to null
DecodesToDeclared(f, raw) ==
  /\ raw.py = "str"
  /\ \/ JsonLoads(raw.text).t = DeclaredType(f)
     \/ f \notin ClaimedRequired /\ JsonLoads(raw.text).t = "NoneType"

\* endpoint_tls_ca is a JSON string of standard base64
DecodesToBase64(raw) ==
  raw.py = "str" /\ JsonLoads(raw.text).t = "str" /\ IsBase64(JsonLoads(raw.text).s)

\* a valid complete raw map: the seven required fields JSON strings, every
\* optional field missing, null or well typed (a certificate in base64)
ValidComplete(raw) ==
  /\ ClaimedRequired \subseteq DOMAIN raw
  /\ \A f \in DOMAIN raw \cap Fields : DecodesToDeclared(f, raw[f])
  /\ "endpoint_tls_ca" \in DOMAIN raw =>
       \/ JsonLoads(raw["endpoint_tls_ca"].text).t = "NoneType"
       \/ DecodesToBase64(raw["endpoint_tls_ca"])

\* C2: for every valid complete raw map (the required fields present as
\* JSON strings, each optional field missing, JSON null or a well-typed JSON
\* value), constructing Data succeeds and is_ready is true.
C2_ValidCompleteIsReady ==
  (PeerPresent /\ ValidComplete(relation_data) /\ last.op = "is_ready") =>
    /\ Data(relation_data).ok
    /\ is_ready(data(C, E))
    /\ last.out = RBool(TRUE)

\* the same with endpoint_tls_ca missing or a certificate, never null
C2_ExceptNullCertificate ==
  (/\ PeerPresent
   /\ ValidComplete(relation_data)
   /\ "endpoint_tls_ca" \in DOMAIN relation_data =>
        DecodesToBase64(relation_data["endpoint_tls_ca"])) =>
    /\ Data(relation_data).ok
    /\ is_ready(data(C, E))

\* what the handlers give for a databag that is not ready, none raising
Degraded(d) ==
  /\ ~is_ready(d)
  /\ cloud_conf(d) = RNone
  /\ cloud_conf_b64(d) = RNone
  /\ endpoint_tls_ca(d) = RNone
  /\ proxy_config(d) = RDict(<<>>)

\* the handler that ran last returned what a not-ready requirer returns
LastDegraded ==
  /\ ~Raised(last.out)
  /\ last.op = "is_ready" => last.out = RBool(FALSE)
  /\ last.op \in { "cloud_conf", "cloud_conf_b64", "endpoint_tls_ca" } => last.out = RNone
  /\ last.op = "proxy_config" => last.out = RDict(<<>>)
  /\ last.op = "evaluate_relation" => IsReason(last.out)

\* a field fails validation as the specification has it
FailsValidation(raw) ==
  \/ "endpoint_tls_ca" \in DOMAIN raw /\ ~DecodesToBase64(raw["endpoint_tls_ca"])
  \/ \E f \in DOMAIN raw \cap Fields : ~DecodesToDeclared(f, raw[f])

\* C3 as stated: for every raw map in which a field fails validation
\* (endpoint_tls_ca present but not valid standard base64, or a field whose
\* value does not JSON-decode to its declared type), constructing Data fails
\* with ValidationError and every handler gives the not-ready result without
\* raising.
C3_FailsValidationDegrades ==
  (PeerPresent /\ FailsValidation(relation_data) /\ last.op \in Accessors) =>
    /\ ~Data(relation_data).ok
    /\ data(C, E).st = "ValidationError"
    /\ Degraded(data(C, E))
    /\ LastDegraded

\* the values pydantic converts to the declared type: a number or a bool for
\* a str, a str of digits or a bool for an int, 0, 1 and the words for yes
\* and no for a bool, the empty str for a dict
Convertible(f, j) ==
  CASE DeclaredType(f) = "str" -> j.t \in { "str", "int", "bool" }
    [] DeclaredType(f) = "int" ->
         \/ j.t \in { "int", "bool" }
         \/ j.t = "str" /\ j.s # <<>> /\ \A i \in DOMAIN j.s : j.s[i] \in Digits
    [] DeclaredType(f) = "bool" ->
         \/ j.t = "bool"
         \/ j.t = "int" /\ j.s \in { << "0" >>, << "1" >> }
         \/ j.t = "str" /\ Lower(j.s) \in BOOL_TRUE \cup BOOL_FALSE
    [] DeclaredType(f) = "dict" -> j.t = "dict" \/ (j.t = "str" /\ j.s = <<>>)

\* the str endpoint_tls_ca is converted to
AsStr(j) ==
  CASE j.t = "str" -> j.s
    [] j.t = "int" -> j.s
    [] j.t = "bool" -> Text(IF j.b THEN "True" ELSE "False")
    [] OTHER -> << "?" >>

\* a field that fails validation in the code: its value is no JSON text, or
\* decodes to a value that does not convert to the declared type, or is null
\* for a required field; endpoint_tls_ca fails also when it is null or a str
\* that is not standard base64
Rejected(f, raw) ==
  LET j == IF raw.py = "str" THEN JsonLoads(raw.text) ELSE JsonError
  IN  \/ j.t = "JsonError"
      \/ j.t = "NoneType" /\ f \in ClaimedRequired \cup { "endpoint_tls_ca" }
      \/ j.t # "NoneType" /\ ~Convertible(f, j)
      \/ f = "endpoint_tls_ca" /\ j.t # "NoneType" /\ ~IsBase64(AsStr(j))

\* C3 as amended: for every raw map in which a field is rejected,
\* constructing Data fails with ValidationError and every handler gives the
\* not-ready result without raising; a value that converts to the declared
\* type is not rejected.
C3_RejectedDegrades ==
  /\ (PeerPresent /\ \E f \in DOMAIN relation_data \cap Fields :
                       Rejected(f, relation_data[f])) =>
       /\ ~Data(relation_data).ok
       /\ data(C, E).st = "ValidationError"
       /\ Degraded(data(C, E))
       /\ LastDegraded
  /\ (/\ PeerPresent
      /\ ClaimedRequired \subseteq DOMAIN relation_data
      /\ \A f \in DOMAIN relation_data \cap Fields : ~Rejected(f, relation_data[f])) =>
       Data(relation_data).ok

\* a certificate that is a JSON string but not base64, after every handler
\* but is_ready's caller ran: cloud_conf_b64 returned None
C3_Witness ==
  /\ PeerPresent
  /\ "endpoint_tls_ca" \in DOMAIN relation_data
  /\ JsonLoads(relation_data["endpoint_tls_ca"].text).t = "str"
  /\ ~DecodesToBase64(relation_data["endpoint_tls_ca"])
  /\ last.op = "cloud_conf_b64"
  /\ last.out = RNone

\* the event is the relation-broken event of the relation of this endpoint
BrokenHere(event) == event.broken /\ event.relation = model_relation

\* the reason C4 gives a requirer that is not ready
ReasonFits(r, event) ==
  /\ IsReason(r)
  /\ IF model_relation = "None" \/ BrokenHere(event)
       THEN Contains(r.s, Text("Missing")) /\ ~Contains(r.s, Text("Waiting"))
       ELSE Contains(r.s, Text("Waiting")) /\ ~Contains(r.s, Text("Missing"))

\* C4: evaluate_relation(event) returns null exactly when is_ready is true;
\* when not ready the reason contains "Missing" if there is no relation or
\* the event is the relation-broken event of this same relation, and
\* "Waiting" otherwise; with no relation is_ready is false, cloud_conf and
\* endpoint_tls_ca are null and the reason contains "Missing".
C4_ReasonFollowsReadiness ==
  LET d == data(C, E)
  IN  /\ \A event \in Events :
           LET r == evaluate_relation(C, E, d, event)
           IN  /\ (r = RNone) <=> is_ready(d)
               /\ ~is_ready(d) => ReasonFits(r, event)
      /\ last.op = "evaluate_relation" =>
           /\ (last.out = RNone) <=> is_ready(d)
           /\ ~is_ready(d) => ReasonFits(last.out, last.event)
      /\ model_relation = "None" =>
           /\ ~is_ready(d)
           /\ cloud_conf(d) = RNone
           /\ endpoint_tls_ca(d) = RNone
           /\ last.op \in { "cloud_conf", "endpoint_tls_ca" } => last.out = RNone
           /\ last.op = "is_ready" => last.out = RBool(FALSE)

\* a peer whose data is incomplete, evaluated on the relation-broken event of
\* another relation: the reason is the waiting one
C4_Witness ==
  /\ PeerPresent
  /\ ~is_ready(data(C, E))
  /\ last.op = "evaluate_relation"
  /\ last.event = [broken |-> TRUE, relation |-> OtherRelation]
  /\ Contains(last.out.s, Text("Waiting"))

\* the document a constructed record renders, when the peer's databag
\* constructs one
Constructed == PeerPresent /\ data(C, E).st = "Data"
Document == cloud_config(data(C, E).rec)
Rendered == Constructed /\ Document.k = "str"

\* C5: a record whose lb_enabled is null (key missing or JSON null) is
\* treated as load-balancer enabled: the rendered [LoadBalancer] section has
\* the key enabled, with value false, if and only if lb_enabled is
\* explicitly false.
C5_EnabledOnlyWhenFalse ==
  (Constructed /\ last.op = "cloud_conf" /\ last.out.k = "str") =>
    /\ Text("enabled") \in SectionKeys(last.out.s, "LoadBalancer")
         <=> data(C, E).rec.lb_enabled = PyBool(FALSE)
    /\ \A v \in SectionValues(last.out.s, "LoadBalancer", "enabled") : v[2] = Text("false")

\* what the code does instead: the key is there unless lb_enabled is true
C5_EnabledUnlessTrue ==
  Rendered =>
    /\ Text("enabled") \in SectionKeys(Document.s, "LoadBalancer")
         <=> data(C, E).rec.lb_enabled # PyBool(TRUE)
    /\ \A v \in SectionValues(Document.s, "LoadBalancer", "enabled") : v[2] = Text("false")

\* the use-octavia and lb-provider lines C6 gives has_octavia
OctaviaFits(doc, has_octavia) ==
  LET use == SectionValues(doc, "LoadBalancer", "use-octavia")
      provider == SectionValues(doc, "LoadBalancer", "lb-provider")
  IN  /\ Cardinality(use) = 1
      /\ IF has_octavia = PyBool(FALSE)
           THEN /\ \A v \in use : v[2] = Text("false")
                /\ Cardinality(provider) = 1
                /\ \A v \in provider : v[2] = Text("haproxy")
           ELSE /\ \A v \in use : v[2] = Text("true")
                /\ provider = {}

\* C6: for every successfully constructed record, the rendered
\* [LoadBalancer] section contains exactly one use-octavia key: true with no
\* lb-provider key when has_octavia is true or null, false together with
\* lb-provider = haproxy when has_octavia is explicitly false.
C6_OneUseOctavia ==
  (Constructed /\ is_ready(data(C, E)) /\ last.op = "cloud_conf") =>
    /\ last.out.k = "str"
    /\ OctaviaFits(last.out.s, data(C, E).rec.has_octavia)

\* the same of the documents that are rendered
C6_WhenRendered ==
  Rendered => OctaviaFits(Document.s, data(C, E).rec.has_octavia)

GlobalKeys ==
  { Text("auth-url"), Text("username"), Text("password"), Text("region"),
    Text("tenant-name"), Text("tenant-domain-name"), Text("user-domain-name") }

DecodesToEmpty(raw) == raw.py = "str" /\ JsonLoads(raw.text) = PyStr(<<>>)

\* C7: for every raw map in which a required field is present but
\* JSON-decodes to the empty string, constructing Data fails with
\* ValidationError and is_ready is false, so that every record that is ready
\* renders all seven always-emitted [Global] keys.
C7_EmptyRequiredRejected ==
  /\ (PeerPresent /\ \E f \in ClaimedRequired \cap DOMAIN relation_data :
                       DecodesToEmpty(relation_data[f])) =>
       /\ last.op = "is_ready" => ~Data(relation_data).ok /\ last.out = RBool(FALSE)
  /\ (Constructed /\ is_ready(data(C, E)) /\ last.op = "cloud_conf" /\ last.out.k = "str") =>
       GlobalKeys \subseteq SectionKeys(last.out.s, "Global")

\* what holds instead: a ready record renders the keys of the required
\* fields that are not empty
C7_NonEmptyRendered ==
  (Rendered /\ is_ready(data(C, E))) =>
    \/ GlobalKeys \subseteq SectionKeys(Document.s, "Global")
    \/ \E f \in ClaimedRequired : data(C, E).rec[f] = PyStr(<<>>)

\* C8: whenever is_ready is true, cloud_conf_b64 equals the standard base64
\* encoding of the exact bytes of cloud_conf read in the same state;
\* whenever is_ready is false, cloud_conf_b64 is null.
C8_Base64OfCloudConf ==
  LET d == data(C, E)
  IN  last.op = "cloud_conf_b64" =>
        /\ is_ready(d) =>
             /\ cloud_conf(d).k = "str"
             /\ last.out = RBytes(b64encode(Encode(cloud_conf(d).s)))
        /\ ~is_ready(d) => last.out = RNone

\* the same where cloud_conf returns; where it raises, cloud_conf_b64 raises
\* the same error
C8_WhenRendered ==
  LET d == data(C, E)
  IN  /\ (is_ready(d) /\ cloud_conf(d).k = "str") =>
           cloud_conf_b64(d) = RBytes(b64encode(Encode(cloud_conf(d).s)))
      /\ (is_ready(d) /\ cloud_conf(d).k # "str") =>
           Raised(cloud_conf(d)) /\ cloud_conf_b64(d) = cloud_conf(d)
      /\ ~is_ready(d) => cloud_conf_b64(d) = RNone

\* what each accessor of an instance with cache c returns (or raises) in e
Results(c, e) ==
  LET d == data(c, e)
  IN  [ is_ready |-> RBool(is_ready(d)),
        cloud_conf |-> cloud_conf(d),
        cloud_conf_b64 |-> cloud_conf_b64(d),
        endpoint_tls_ca |-> endpoint_tls_ca(d),
        proxy_config |-> proxy_config(d) ]

\* C9 as stated: after any interleaving of accessor calls with changes to
\* the relation or its raw data, each accessor's result equals what a
\* freshly created instance would return for the current raw data; no
\* result is cached across a mutation.
C9_RecomputedFromCurrentData == Results(C, E) = Results(Fresh, E)

\* the instance and what the model holds after the step
C_after ==
  [relation |-> cached_relation', raw_data |-> cached_raw_data', data |-> cached_data']
E_after == [relation |-> model_relation', units |-> relation_units', data |-> relation_data']

\* an accessor ran in this step
AccessorStep == last' # last /\ last'.op \in Accessors

\* C9 as amended: an accessor returns what its instance's _data gives; _data
\* is computed at the first accessor call in which it does not raise
\* ValidationError (from the raw data current at that call, as a fresh
\* instance would) and kept for the life of the instance; from then on no
\* change to the relation or its raw data changes the result of any
\* accessor of that instance.
C9_CachedForInstance ==
  [][ /\ AccessorStep =>
           /\ last'.out = Results(C, E)[last'.op]
           /\ data(C, E).st # "ValidationError" => cached_data' = data(C, E)
           /\ cached_relation = "unset" => last'.out = Results(Fresh, E)[last'.op]
      /\ cached_data.st # "unset" =>
           \/ last'.op = "__init__"
           \/ cached_data' = cached_data /\ Results(C_after, E_after) = Results(C, E)
    ]_vars

\* an instance that read a complete databag, the peer then publishing another
\* one: cloud_conf returns the document of the databag read first
C9_Witness ==
  /\ PeerPresent
  /\ cached_data.st = "Data"
  /\ Data(relation_data).ok
  /\ Data(relation_data).rec # cached_data.rec
  /\ last.op = "cloud_conf"
  /\ last.out = cloud_conf(cached_data)
  /\ last.out # Results(Fresh, E).cloud_conf

\* C10: in every reachable state of an instance, after any sequence of
\* accessor calls and raw-data changes, cloud_conf is non-null if and only
\* if is_ready is true, and whenever is_ready is false endpoint_tls_ca is
\* null and proxy_config is the empty mapping.
C10_GatedByReadiness ==
  LET d == data(C, E)
  IN  /\ cloud_conf(d).k = "str" <=> is_ready(d)
      /\ ~is_ready(d) => cloud_conf(d) = RNone
      /\ ~is_ready(d) => endpoint_tls_ca(d) = RNone /\ proxy_config(d) = RDict(<<>>)

\* what holds instead: a ready instance returns a document or raises the
\* ValueError of configparser
C10_GatedOrRaises ==
  LET d == data(C, E)
  IN  /\ is_ready(d) => cloud_conf(d).k = "str" \/ cloud_conf(d) = Raises("ValueError")
      /\ ~is_ready(d) => cloud_conf(d) = RNone
      /\ ~is_ready(d) => endpoint_tls_ca(d) = RNone /\ proxy_config(d) = RDict(<<>>)

====
